---- MODULE Spec2Model ----
(***************************************************************************)
(* Model of RunModules (module.go): the module runner that starts every    *)
(* Module in its own goroutine, cancels the shared context when the first  *)
(* module stops, waits for all of them and aggregates their errors.        *)
(*                                                                         *)
(* Processes:                                                              *)
(*   - the caller's goroutine (make errCh, WithCancel, then the range      *)
(*     loop over errCh and the return),                                    *)
(*   - the outer goroutine (wg.Add, the launch loop, wg.Wait, close),      *)
(*   - one goroutine per module (Start, send, wg.Done, stopCloseOnce.Do),  *)
(*   - the environment, which may cancel the parent context at any time.   *)
(***************************************************************************)
EXTENDS Integers, Sequences, FiniteSets, Bags, TLC

\* ------------------------------------------------------------------ bounds

\* Largest number of modules passed to RunModules in the general case.
MaxModules == 3

\* The same for the behaviours checked under fairness.
MaxFairModules == 2

\* The same for the behaviours that follow the order of returns and receipts.
MaxHistModules == 2

\* The same for the behaviours that start with the registration of the flags.
MaxBindModules == 2

\* The same for the behaviours whose list is given in every order.
MaxPermModules == 2

\* ------------------------------------------------------------- the modules

Nil == "nil"

\* The error values of the tests, by the position of the module built with
\* them; fmt.Errorf makes a distinct error for each module.
ErrorNames ==
    <<"test-error-1", "test-error-2", "test-error-3", "test-error-4", "test-error-5">>

\* noopModule returns at once, waitStopModule blocks on ctx.Done(); a
\* neverModule is a Module whose Start never returns (it ignores the context),
\* which the Module interface cannot rule out.
noopModule(e) == [kind |-> "noopModule", err |-> e]

waitStopModule(e) == [kind |-> "waitStopModule", err |-> e]

neverModule == [kind |-> "neverModule", err |-> Nil]

\* flagModule registers one string flag bound to its flagValue field and
\* returns nil from Start at once; its flag is named after its position.
flagModule == [kind |-> "flagModule", err |-> Nil]

FlagNames ==
    <<"test-flag-1", "test-flag-2", "test-flag-3", "test-flag-4", "test-flag-5">>

\* The values the command line may give to a flag.
FlagValues == {"test-flag-value", "other-flag-value"}

\* The modules that can stand at position i of the list: built with no error
\* or with the error of that position.
ModulesAt(i) ==
    {noopModule(Nil), waitStopModule(Nil), neverModule,
     noopModule(ErrorNames[i]), waitStopModule(ErrorNames[i])}

\* The module lists of TestNewModuleRunner.
NoErrors ==
    <<noopModule(Nil), waitStopModule(Nil), waitStopModule(Nil), waitStopModule(Nil)>>

SingleError == <<noopModule("test-error-1"), waitStopModule(Nil)>>

MultipleErrors == <<noopModule("test-error-1"), waitStopModule("test-error-2")>>

TestCases == {NoErrors, SingleError, MultipleErrors}

\* Every list of at most max modules.
ListsUpTo(max) ==
    UNION {{l \in [1..n -> UNION {ModulesAt(i) : i \in 1..n}] :
               \A i \in 1..n : l[i] \in ModulesAt(i)} : n \in 0..max}

\* The lists RunModules is called with: the general ones and those of the
\* tests.
ModuleLists == ListsUpTo(MaxModules) \cup TestCases

FairModuleLists == ListsUpTo(MaxFairModules) \cup TestCases

HistModuleLists == ListsUpTo(MaxHistModules) \cup TestCases

\* The orders in which a list of n modules can be passed.
Orders(n) ==
    {p \in [1..n -> 1..n] : \A i, j \in 1..n : i # j => p[i] # p[j]}

\* The same modules as those of list l, in every order.
Permuted(l) == {[i \in 1..Len(l) |-> l[p[i]]] : p \in Orders(Len(l))}

PermModuleLists == UNION {Permuted(l) : l \in ListsUpTo(MaxPermModules)}

\* The lists of the command that registers flags: flagModules among the
\* other modules.
BindModuleLists ==
    UNION {{l \in [1..n -> UNION {ModulesAt(i) : i \in 1..n} \cup {flagModule}] :
               \A i \in 1..n : l[i] \in ModulesAt(i) \cup {flagModule}}
           : n \in 0..MaxBindModules}

\* ------------------------------------------------------------------- state

VARIABLES
    modules,        \* the []Module argument
    parentDone,     \* the caller's ctx is cancelled
    ctxDone,        \* the derived ctx (context.WithCancel) is cancelled
    cancelCalls,    \* how many times cancel() has run
    stopCloseOnce,  \* sync.Once: TRUE once Do has run its function
    wg,             \* sync.WaitGroup counter
    errChClosed,    \* close(errCh) has run
    outerPc,        \* outer goroutine: "Add", "Launch", "Wait", "Close", "Exit"
                    \* ("NotStarted" before RunModules is called)
    next,           \* outer goroutine: index of the next module to launch
    pc,             \* per module goroutine: 0 not launched, k at GoroutineBody[k],
                    \* Len(GoroutineBody)+1 exited
    startReturned,  \* the modules whose Start has returned
    mainPc,         \* caller: "Range", "Append", "Returned" ("NotCalled" before
                    \* RunModules is called)
    err,            \* caller: the loop variable of the range loop (Nil outside
                    \* an iteration)
    result,         \* caller: the aggregated error, a sequence (<<>> is nil)
    panicked,       \* a goroutine panicked (send on closed channel, negative wg)
    startCalls,     \* per module: how many times its Start has been invoked
    firedBy,        \* the module whose goroutine ran cancel() (0: none yet; kept
                    \* with atReturn)
    atReturn,       \* per failing module, when its Start returned: the modules
                    \* whose Start had returned, and those whose error the
                    \* caller had received (kept for the modules of its domain)
    cmdPc,          \* the command: "Bind", "Execute", "RunE", "Run"
    bindNext,       \* BindModuleFlags: index of the next module to bind
    bindCalls,      \* per module: how many times its BindFlags has been called
    flagSet,        \* c.Flags(): the registered flags, [name, target]
    flagValue,      \* per module instance: its flagValue field (0: a copy)
    args            \* the command line: the value given for each flagModule

\* The state of the command around RunModules.
cmdVars == <<cmdPc, bindNext, bindCalls, flagSet, flagValue, args>>

\* The history kept of one invocation.
histVars == <<startCalls, firedBy, atReturn>>

vars == <<modules, parentDone, ctxDone, cancelCalls, stopCloseOnce, wg, errChClosed,
          outerPc, next, pc, startReturned, mainPc, err, result, panicked,
          startCalls, firedBy, atReturn,
          cmdPc, bindNext, bindCalls, flagSet, flagValue, args>>

N == Len(modules)

Units == 1..N

\* Mutants of the goroutine body: wg.Done() before Start; no
\* stopCloseOnce.Do; the cancellation before the send; wg.Done() before the
\* send; the cancellation before Start.
GoroutineBodyCancelBeforeStart == <<"Once", "Start", "Send", "Done">>

GoroutineBodyDoneFirst == <<"Done", "Start", "Send", "Once">>

GoroutineBodyNoCancel == <<"Start", "Send", "Done">>

GoroutineBodyCancelFirst == <<"Start", "Once", "Send", "Done">>

GoroutineBodySendLast == <<"Start", "Done", "Once", "Send">>

GoroutineBodyDoneBeforeSend == <<"Start", "Done", "Send", "Once">>

\* The statements of a module's goroutine, in program order.
GoroutineBody == <<"Start", "Send", "Done", "Once">>

Exited == Len(GoroutineBody) + 1

At(i, stmt) == pc[i] \in 1..Len(GoroutineBody) /\ GoroutineBody[pc[i]] = stmt

\* Goroutine i has executed statement stmt of its body.
Executed(i, stmt) ==
    \E k \in 1..Len(GoroutineBody) : GoroutineBody[k] = stmt /\ pc[i] > k

\* Mutant: Start reports a failure whatever the module was built with.
StartResultAlwaysFails(m) == ErrorNames[1]

\* Start's return value.
StartResult(m) == m.err

\* Whether Start can return now: noopModule and flagModule at any time,
\* waitStopModule once
\* <-ctx.Done() is readable, a neverModule never.
StartMayReturn(m) ==
    \/ m.kind = "noopModule"
    \/ m.kind = "flagModule"
    \/ m.kind = "waitStopModule" /\ ctxDone

\* `if err != nil` guards the send.
ShouldSend(e) == e # Nil

\* The statement a module goroutine executes next when control reaches
\* statement k: a send guarded by a false `if` is skipped.
Goto(i, k) ==
    IF k <= Len(GoroutineBody) /\ GoroutineBody[k] = "Send"
          /\ ~ShouldSend(StartResult(modules[i]))
    THEN k + 1
    ELSE k

\* The modules whose error the caller has received from errCh.
Received ==
    {i \in Units : ShouldSend(StartResult(modules[i])) /\ Executed(i, "Send")}

\* The history of module i is kept (in the behaviours of HistSpec).
Followed(i) == i \in DOMAIN atReturn

\* Mutant: a Do that runs its function on every call.
OnceFiresEveryTime == TRUE

\* sync.Once.Do runs its function only the first time.
OnceFires == ~stopCloseOnce

\* Mutant: the outer goroutine does not wait for the counter.
WaitNotCalled == TRUE

\* wg.Wait() returns when the counter is zero.
WaitReleased == wg = 0

\* The position in the list of the module built with error e (0: none).
LaunchIndex(e) ==
    IF \E i \in DOMAIN ErrorNames : ErrorNames[i] = e
    THEN CHOOSE i \in DOMAIN ErrorNames : ErrorNames[i] = e
    ELSE 0

\* Mutant: the new error is put in front of the result.
multierrAppendPrepends(left, right) ==
    IF right = Nil THEN left ELSE <<right>> \o left

\* Mutant: the result is kept in the order of the list of modules.
multierrAppendInLaunchOrder(left, right) ==
    IF right = Nil THEN left
    ELSE SelectSeq(left, LAMBDA e : LaunchIndex(e) < LaunchIndex(right))
            \o <<right>>
            \o SelectSeq(left, LAMBDA e : LaunchIndex(e) >= LaunchIndex(right))

\* Mutant: the new error replaces the result instead of being appended.
multierrAppendKeepsLast(left, right) == IF right = Nil THEN left ELSE <<right>>

\* multierr.Append: nil operands vanish, anything else is appended in order.
multierrAppend(left, right) == IF right = Nil THEN left ELSE Append(left, right)

\* The state when RunModules has made errCh, derived ctx and started the outer
\* goroutine, called with one of the given lists.
InitWith(lists) ==
    /\ modules \in lists
    /\ parentDone = FALSE
    /\ ctxDone = FALSE
    /\ cancelCalls = 0
    /\ stopCloseOnce = FALSE
    /\ wg = 0
    /\ errChClosed = FALSE
    /\ outerPc = "Add"
    /\ next = 1
    /\ pc = [i \in 1..Len(modules) |-> 0]
    /\ startReturned = {}
    /\ mainPc = "Range"
    /\ err = Nil
    /\ result = <<>>
    /\ panicked = FALSE
    /\ startCalls = [i \in 1..Len(modules) |-> 0]
    /\ firedBy = 0

\* The command has dispatched to RunModules; no flag is registered.
NoFlags ==
    /\ cmdPc = "Run"
    /\ bindNext = 1
    /\ bindCalls = [i \in 1..Len(modules) |-> 0]
    /\ flagSet = {}
    /\ flagValue = [i \in 0..Len(modules) |-> ""]
    /\ args = [i \in {} |-> ""]

\* The order of returns and receipts is followed only in the behaviours of
\* HistSpec, which give atReturn the modules as its domain.
NoReturnHistory == atReturn = <<>>

ReturnHistory ==
    atReturn = [i \in 1..Len(modules) |-> [returned |-> {}, received |-> {}]]

Init == InitWith(ModuleLists) /\ NoFlags /\ NoReturnHistory

FairInit == InitWith(FairModuleLists) /\ NoFlags /\ NoReturnHistory

PermInit == InitWith(PermModuleLists) /\ NoFlags /\ NoReturnHistory

HistInit == InitWith(HistModuleLists) /\ NoFlags /\ ReturnHistory

\* The state of TestBindModuleFlags before BindModuleFlags: the modules and the
\* command are built, the arguments are set, nothing is registered and
\* RunModules has not been called.
BindInit ==
    /\ modules \in BindModuleLists
    /\ parentDone = FALSE
    /\ ctxDone = FALSE
    /\ cancelCalls = 0
    /\ stopCloseOnce = FALSE
    /\ wg = 0
    /\ errChClosed = FALSE
    /\ outerPc = "NotStarted"
    /\ next = 1
    /\ pc = [i \in 1..Len(modules) |-> 0]
    /\ startReturned = {}
    /\ mainPc = "NotCalled"
    /\ err = Nil
    /\ result = <<>>
    /\ panicked = FALSE
    /\ startCalls = [i \in 1..Len(modules) |-> 0]
    /\ firedBy = 0
    /\ NoReturnHistory
    /\ cmdPc = "Bind"
    /\ bindNext = 1
    /\ bindCalls = [i \in 1..Len(modules) |-> 0]
    /\ flagSet = {}
    /\ flagValue = [i \in 0..Len(modules) |-> ""]
    /\ args \in [{FlagNames[i] : i \in {j \in 1..Len(modules) : modules[j] = flagModule}}
                    -> FlagValues]

\* ------------------------------------------------------------ the command

runVars == <<modules, parentDone, ctxDone, cancelCalls, stopCloseOnce, wg, errChClosed,
             next, pc, startReturned, err, result, panicked>>

\* Mutant: the module is passed by value, its flag is bound to a copy.
BoundInstanceCopy(i) == 0

\* The instance whose field BindFlags binds: the loop passes the interface
\* value, which holds the pointer to the module itself.
BoundInstance(i) == i

\* One iteration of BindModuleFlags: m.BindFlags(c.Flags()). flagModule binds
\* its flag with StringVar, which stores the default in the bound field; the
\* other modules register nothing.
BindFlags ==
    /\ cmdPc = "Bind"
    /\ bindNext <= N
    /\ bindCalls' = [bindCalls EXCEPT ![bindNext] = @ + 1]
    /\ IF modules[bindNext] = flagModule
       THEN /\ flagSet' = flagSet \cup
                   {[name |-> FlagNames[bindNext], target |-> BoundInstance(bindNext)]}
            /\ flagValue' = [flagValue EXCEPT ![BoundInstance(bindNext)] = "default"]
       ELSE UNCHANGED <<flagSet, flagValue>>
    /\ bindNext' = bindNext + 1
    /\ UNCHANGED <<runVars, histVars, outerPc, mainPc, cmdPc, args>>

\* BindModuleFlags returns at the end of its loop.
BindModuleFlagsReturn ==
    /\ cmdPc = "Bind"
    /\ bindNext > N
    /\ cmdPc' = "Execute"
    /\ UNCHANGED <<runVars, histVars, outerPc, mainPc, bindNext, bindCalls, flagSet,
                   flagValue, args>>

\* testCmd.Execute() parses the arguments: every flag given is stored through
\* the pointer it was bound with.
ParseFlags ==
    /\ cmdPc = "Execute"
    /\ flagValue' =
          [t \in DOMAIN flagValue |->
              LET given == {f \in flagSet : f.target = t /\ f.name \in DOMAIN args}
              IN  IF given = {} THEN flagValue[t]
                  ELSE args[(CHOOSE f \in given : TRUE).name]]
    /\ cmdPc' = "RunE"
    /\ UNCHANGED <<runVars, histVars, outerPc, mainPc, bindNext, bindCalls, flagSet,
                   args>>

\* Execute calls RunE, the func of NewModuleRunner, which calls RunModules:
\* errCh, the derived context and the outer goroutine are made.
RunE ==
    /\ cmdPc = "RunE"
    /\ cmdPc' = "Run"
    /\ outerPc' = "Add"
    /\ mainPc' = "Range"
    /\ UNCHANGED <<runVars, histVars, bindNext, bindCalls, flagSet, flagValue, args>>

\* ----------------------------------------------------------- environment

\* Mutant: the context of the modules is not derived from the caller's.
ParentCancelNotInherited ==
    /\ ~panicked
    /\ UNCHANGED <<cmdVars, histVars>>
    /\ ~parentDone
    /\ parentDone' = TRUE
    /\ UNCHANGED <<modules, ctxDone, cancelCalls, stopCloseOnce, wg, errChClosed, outerPc,
                   next, pc, startReturned, mainPc, err, result, panicked>>

\* The caller's context is cancelled; the derived context is cancelled with it.
ParentCancel ==
    /\ ~panicked
    /\ UNCHANGED <<cmdVars, histVars>>
    /\ ~parentDone
    /\ parentDone' = TRUE
    /\ ctxDone' = TRUE
    /\ UNCHANGED <<modules, cancelCalls, stopCloseOnce, wg, errChClosed, outerPc, next,
                   pc, startReturned, mainPc, err, result, panicked>>

\* ------------------------------------------------------- outer goroutine

\* Mutant: the goroutines are not registered with the WaitGroup.
OuterAddMissing ==
    /\ ~panicked
    /\ UNCHANGED <<cmdVars, histVars>>
    /\ outerPc = "Add"
    /\ wg' = wg
    /\ outerPc' = IF N = 0 THEN "Wait" ELSE "Launch"
    /\ UNCHANGED <<modules, parentDone, ctxDone, cancelCalls, stopCloseOnce, errChClosed,
                   next, pc, startReturned, mainPc, err, result, panicked>>

\* wg.Add(len(modules))
OuterAdd ==
    /\ ~panicked
    /\ UNCHANGED <<cmdVars, histVars>>
    /\ outerPc = "Add"
    /\ wg' = wg + N
    /\ outerPc' = IF N = 0 THEN "Wait" ELSE "Launch"
    /\ UNCHANGED <<modules, parentDone, ctxDone, cancelCalls, stopCloseOnce, errChClosed,
                   next, pc, startReturned, mainPc, err, result, panicked>>

\* Mutant: the loop does not start a module once the context is cancelled.
OuterLaunchUnlessCancelled ==
    /\ ~panicked
    /\ outerPc = "Launch"
    /\ next <= N
    /\ IF ctxDone
       THEN UNCHANGED <<pc, startCalls>>
       ELSE /\ pc' = [pc EXCEPT ![next] = Goto(next, 1)]
            /\ startCalls' = [startCalls EXCEPT ![next] = @ + 1]
    /\ next' = next + 1
    /\ outerPc' = IF next = N THEN "Wait" ELSE "Launch"
    /\ UNCHANGED <<cmdVars, firedBy, atReturn>>
    /\ UNCHANGED <<modules, parentDone, ctxDone, cancelCalls, stopCloseOnce, wg,
                   errChClosed, startReturned, mainPc, err, result, panicked>>

\* Mutant: the loop starts a module only once the Start of the one before
\* it has returned.
OuterLaunchSequential ==
    /\ ~panicked
    /\ startCalls' = [startCalls EXCEPT ![next] = @ + 1]
    /\ UNCHANGED <<cmdVars, firedBy, atReturn>>
    /\ outerPc = "Launch"
    /\ next <= N
    /\ next = 1 \/ (next - 1) \in startReturned
    /\ pc' = [pc EXCEPT ![next] = Goto(next, 1)]
    /\ next' = next + 1
    /\ outerPc' = IF next = N THEN "Wait" ELSE "Launch"
    /\ UNCHANGED <<modules, parentDone, ctxDone, cancelCalls, stopCloseOnce, wg,
                   errChClosed, startReturned, mainPc, err, result, panicked>>

\* One iteration of `for _, m := range modules { go func(m Module) {...}(m) }`.
OuterLaunch ==
    /\ ~panicked
    /\ startCalls' = [startCalls EXCEPT ![next] = @ + 1]
    /\ UNCHANGED <<cmdVars, firedBy, atReturn>>
    /\ outerPc = "Launch"
    /\ next <= N
    /\ pc' = [pc EXCEPT ![next] = Goto(next, 1)]
    /\ next' = next + 1
    /\ outerPc' = IF next = N THEN "Wait" ELSE "Launch"
    /\ UNCHANGED <<modules, parentDone, ctxDone, cancelCalls, stopCloseOnce, wg,
                   errChClosed, startReturned, mainPc, err, result, panicked>>

\* wg.Wait()
OuterWait ==
    /\ ~panicked
    /\ UNCHANGED <<cmdVars, histVars>>
    /\ outerPc = "Wait"
    /\ WaitReleased
    /\ outerPc' = "Close"
    /\ UNCHANGED <<modules, parentDone, ctxDone, cancelCalls, stopCloseOnce, wg,
                   errChClosed, next, pc, startReturned, mainPc, err, result, panicked>>

\* Mutant: the outer goroutine exits without closing errCh.
OuterCloseMissing ==
    /\ ~panicked
    /\ UNCHANGED <<cmdVars, histVars>>
    /\ outerPc = "Close"
    /\ outerPc' = "Exit"
    /\ UNCHANGED <<modules, parentDone, ctxDone, cancelCalls, stopCloseOnce, wg,
                   errChClosed, next, pc, startReturned, mainPc, err, result, panicked>>

\* close(errCh)
OuterClose ==
    /\ ~panicked
    /\ UNCHANGED <<cmdVars, histVars>>
    /\ outerPc = "Close"
    /\ errChClosed' = TRUE
    /\ outerPc' = "Exit"
    /\ UNCHANGED <<modules, parentDone, ctxDone, cancelCalls, stopCloseOnce, wg, next,
                   pc, startReturned, mainPc, err, result, panicked>>

\* ------------------------------------------------------ module goroutines

\* err := m.Start(ctx) returns.
Start(i) ==
    /\ ~panicked
    /\ atReturn' =
          IF Followed(i) /\ ShouldSend(StartResult(modules[i]))
          THEN [atReturn EXCEPT ![i] =
                   [returned |-> startReturned, received |-> Received]]
          ELSE atReturn
    /\ UNCHANGED <<cmdVars, startCalls, firedBy>>
    /\ At(i, "Start")
    /\ StartMayReturn(modules[i])
    /\ startReturned' = startReturned \cup {i}
    /\ pc' = [pc EXCEPT ![i] = Goto(i, pc[i] + 1)]
    /\ UNCHANGED <<modules, parentDone, ctxDone, cancelCalls, stopCloseOnce, wg,
                   errChClosed, outerPc, next, mainPc, err, result, panicked>>

\* errCh <- err on the unbuffered channel: a rendezvous with the caller's
\* receive; a send on the closed channel panics.
Send(i) ==
    /\ ~panicked
    /\ UNCHANGED <<cmdVars, histVars>>
    /\ At(i, "Send")
    /\ IF errChClosed
       THEN /\ panicked' = TRUE
            /\ UNCHANGED <<pc, mainPc, err>>
       ELSE /\ mainPc = "Range"
            /\ err' = StartResult(modules[i])
            /\ mainPc' = "Append"
            /\ pc' = [pc EXCEPT ![i] = Goto(i, pc[i] + 1)]
            /\ UNCHANGED panicked
    /\ UNCHANGED <<modules, parentDone, ctxDone, cancelCalls, stopCloseOnce, wg,
                   errChClosed, outerPc, next, startReturned, result>>

\* wg.Done(); a negative counter panics.
Done(i) ==
    /\ ~panicked
    /\ UNCHANGED <<cmdVars, histVars>>
    /\ At(i, "Done")
    /\ IF wg = 0
       THEN /\ panicked' = TRUE
            /\ UNCHANGED <<wg, pc>>
       ELSE /\ wg' = wg - 1
            /\ pc' = [pc EXCEPT ![i] = Goto(i, pc[i] + 1)]
            /\ UNCHANGED panicked
    /\ UNCHANGED <<modules, parentDone, ctxDone, cancelCalls, stopCloseOnce, errChClosed,
                   outerPc, next, startReturned, mainPc, err, result>>

\* stopCloseOnce.Do(func() { cancel() })
Once(i) ==
    /\ ~panicked
    /\ firedBy' = IF OnceFires /\ Followed(i) THEN i ELSE firedBy
    /\ UNCHANGED <<cmdVars, startCalls, atReturn>>
    /\ At(i, "Once")
    /\ IF OnceFires
       THEN /\ stopCloseOnce' = TRUE
            /\ ctxDone' = TRUE
            /\ cancelCalls' = cancelCalls + 1
       ELSE UNCHANGED <<stopCloseOnce, ctxDone, cancelCalls>>
    /\ pc' = [pc EXCEPT ![i] = Goto(i, pc[i] + 1)]
    /\ UNCHANGED <<modules, parentDone, wg, errChClosed, outerPc, next, startReturned,
                   mainPc, err, result, panicked>>

\* ------------------------------------------------------------- the caller

\* result = multierr.Append(result, err), the body of the range loop; the
\* loop variable goes out of scope with the iteration.
MainAppend ==
    /\ ~panicked
    /\ UNCHANGED <<cmdVars, histVars>>
    /\ mainPc = "Append"
    /\ result' = multierrAppend(result, err)
    /\ err' = Nil
    /\ mainPc' = "Range"
    /\ UNCHANGED <<modules, parentDone, ctxDone, cancelCalls, stopCloseOnce, wg,
                   errChClosed, outerPc, next, pc, startReturned, panicked>>

\* The range loop ends on the closed channel; return result.
MainReturn ==
    /\ ~panicked
    /\ UNCHANGED <<cmdVars, histVars>>
    /\ mainPc = "Range"
    /\ errChClosed
    /\ mainPc' = "Returned"
    /\ UNCHANGED <<modules, parentDone, ctxDone, cancelCalls, stopCloseOnce, wg,
                   errChClosed, outerPc, next, pc, startReturned, err, result, panicked>>

\* ---------------------------------------------------------- specification

Progress ==
    \/ OuterAdd
    \/ OuterLaunch
    \/ OuterWait
    \/ OuterClose
    \/ \E i \in Units : Start(i)
    \/ \E i \in Units : Send(i)
    \/ \E i \in Units : Done(i)
    \/ \E i \in Units : Once(i)
    \/ MainAppend
    \/ MainReturn

Next == ParentCancel \/ Progress

Spec == Init /\ [][Next]_vars

HistSpec == HistInit /\ [][Next]_vars

\* TestBindModuleFlags: BindModuleFlags, then Execute, which runs the modules.
BindNext ==
    \/ BindFlags
    \/ BindModuleFlagsReturn
    \/ ParseFlags
    \/ RunE
    \/ Next

BindSpec == BindInit /\ [][BindNext]_vars

\* The Go scheduler runs a runnable goroutine eventually; nothing obliges the
\* caller's context ever to be cancelled.
PermSpec == PermInit /\ [][Next]_vars /\ WF_vars(Progress)

FairSpec == FairInit /\ [][Next]_vars /\ WF_vars(Progress)

\* ------------------------------------------------------------ vocabulary

Returned == mainPc = "Returned"

\* The join of the outer goroutine has completed (wg.Wait() has returned).
Joined == outerPc \in {"Close", "Exit"}

\* The goroutines blocked on `errCh <- err`.
Sending == {i \in Units : At(i, "Send")}

\* The values Start has returned so far that are not nil, as a bag.
ReturnedErrors ==
    LET vals == {StartResult(modules[i]) : i \in startReturned} \ {Nil}
    IN  [e \in vals |->
            Cardinality({i \in startReturned : StartResult(modules[i]) = e})]

\* The errors of a sequence, as a bag.
BagOfSeq(s) ==
    LET vals == {s[k] : k \in DOMAIN s}
    IN  [e \in vals |-> Cardinality({k \in DOMAIN s : s[k] = e})]

\* The message of the aggregated error: the messages joined by "; ".
RECURSIVE multierrError(_)
multierrError(errs) ==
    IF errs = <<>> THEN ""
    ELSE IF Len(errs) = 1 THEN errs[1]
    ELSE errs[1] \o "; " \o multierrError(Tail(errs))

\* The modules that return an error from Start.
Failing == {i \in Units : StartResult(modules[i]) # Nil}

\* The error of module i is in the aggregated result, and where.
InResult(i) == \E k \in DOMAIN result : result[k] = StartResult(modules[i])

Pos(i) == CHOOSE k \in DOMAIN result : result[k] = StartResult(modules[i])

\* ------------------------------------------------------------------ claims

\* C1: full join. RunModules has not returned while the Start call of any
\* module is still to return (or still to be launched), whatever the modules
\* return.
FullJoin == Returned => \A i \in Units : pc[i] # 0 /\ i \in startReturned

\* C1 witness: RunModules returned with several modules, some of which
\* failed and some of which did not.
FullJoinWitness ==
    /\ Returned
    /\ N >= 2
    /\ \E i, j \in Units : modules[i].err = Nil /\ modules[j].err # Nil

\* C2: no error is lost or duplicated. On return the aggregated result holds
\* exactly the bag of non-nil values returned by the Start calls, and it is
\* nil exactly when that bag is empty.
NoErrorLostOrDuplicated ==
    Returned =>
        /\ startReturned = Units
        /\ BagOfSeq(result) = ReturnedErrors
        /\ (result = <<>>) <=> (\A i \in Units : StartResult(modules[i]) = Nil)

\* C2 witness: RunModules returned the errors of three failing modules.
NoErrorLostWitness ==
    /\ Returned
    /\ N = 3
    /\ \A i \in Units : modules[i].err # Nil
    /\ Len(result) = 3

\* C3: when every module is built to return nil from Start, RunModules
\* returns nil, for every number of modules including none.
AllNilReturnsNil ==
    (Returned /\ \A i \in Units : modules[i].err = Nil) => result = <<>>

\* C3 witness: RunModules returned for a non-empty list of modules that all
\* returned nil.
AllNilWitness ==
    /\ Returned
    /\ N >= 2
    /\ \A i \in Units : modules[i].err = Nil
    /\ startReturned = Units

\* C4: when exactly one module returns a non-nil error and every other
\* module is a waitStopModule returning nil, RunModules returns exactly that
\* error, and by then every other module has seen the cancelled context and
\* its Start has returned.
SingleErrorResult ==
    \A i \in Units :
        ( /\ Returned
          /\ modules[i].err # Nil
          /\ \A j \in Units \ {i} : modules[j] = waitStopModule(Nil) )
        => /\ result = <<modules[i].err>>
           /\ multierrError(result) = modules[i].err
           /\ \A j \in Units \ {i} : j \in startReturned /\ ctxDone

\* C4 witness: such a run with two waiting modules, the parent context never
\* cancelled.
SingleErrorWitness ==
    /\ Returned
    /\ N = 3
    /\ ~parentDone
    /\ \E i \in Units :
          /\ modules[i].err # Nil
          /\ \A j \in Units \ {i} : modules[j] = waitStopModule(Nil)

\* C5: stop together on the first return, success included. Once the Start
\* of any module has returned, with nil or with an error, the derived
\* context is eventually cancelled.
StopTogether ==
    /\ (startReturned # {}) ~> ctxDone
    /\ (\E i \in startReturned : StartResult(modules[i]) = Nil) ~> ctxDone

\* C5 witness: the only module that has stopped returned nil, and the
\* invocation (not the parent) has cancelled the context while a sibling is
\* still in Start.
StopTogetherWitness ==
    /\ ~parentDone
    /\ ctxDone
    /\ \E i \in Units :
          /\ startReturned = {i}
          /\ StartResult(modules[i]) = Nil
          /\ \E j \in Units : At(j, "Start")

\* C6: single-fire cancellation. cancel() never runs twice, it has run
\* exactly once as soon as any goroutine is past stopCloseOnce.Do, and the
\* derived context, once cancelled, stays cancelled.
SingleFire ==
    /\ [](cancelCalls <= 1)
    /\ []((\E i \in Units : Executed(i, "Once")) => cancelCalls = 1)
    /\ [][ctxDone => ctxDone']_vars

\* C6 witness: three goroutines are past stopCloseOnce.Do and cancel() has
\* run once.
SingleFireWitness ==
    /\ Cardinality({i \in Units : Executed(i, "Once")}) >= 3
    /\ cancelCalls = 1

\* C7: cancellation-trigger-then-join is strict. Every goroutine triggers
\* the cancellation before it signals its completion to the join, so that
\* once a module has finished the join does not complete, nor does RunModules
\* return, before the derived context is cancelled.
TriggerBeforeJoin ==
    (startReturned # {} /\ (Joined \/ Returned)) => ctxDone

\* C8: termination. When no module ignores the cancellation, and there is no
\* module, or some module returns on its own, or the parent context is
\* cancelled, RunModules eventually returns; the four modules of the NoErrors
\* test end with RunModules returning nil after all four have completed.
Termination ==
    /\ ( /\ \A i \in Units : modules[i].kind # "neverModule"
         /\ \/ N = 0
            \/ \E i \in Units : modules[i].kind = "noopModule"
            \/ <>parentDone )
       => <>Returned
    /\ (modules = NoErrors) => <>Returned
    /\ []((modules = NoErrors /\ Returned) => (result = <<>> /\ startReturned = Units))

\* C8 witness: the NoErrors test has returned, the parent context never
\* cancelled.
TerminationWitness ==
    /\ modules = NoErrors
    /\ Returned
    /\ ~parentDone
    /\ \A i \in Units : pc[i] = Exited

\* C9: a noopModule returning e1 and a waitStopModule returning e2, the
\* parent context not cancelled: the result is exactly <<e1, e2>>, rendered
\* "e1; e2".
TwoErrorsInOrder ==
    \A e1, e2 \in {ErrorNames[1], ErrorNames[2]} :
        (Returned /\ ~parentDone /\ modules = <<noopModule(e1), waitStopModule(e2)>>)
        => /\ result = <<e1, e2>>
           /\ multierrError(result) = e1 \o "; " \o e2

\* C9 witness: the MultipleErrors test has returned its message.
TwoErrorsWitness ==
    /\ modules = MultipleErrors
    /\ Returned
    /\ ~parentDone
    /\ multierrError(result) = "test-error-1; test-error-2"

\* C10: the error path neither deadlocks nor fails. No goroutine panics, the
\* channel is closed (and RunModules returns) only when every goroutine is
\* past its send, and no goroutine stays blocked on its send forever.
ErrorPathSafe ==
    /\ [](~panicked)
    /\ []((errChClosed \/ Returned) =>
            \A i \in Units : i \in startReturned /\ ~At(i, "Send"))
    /\ <>[](Sending = {})

\* C10 witness: every goroutine of a list of several failing modules is
\* blocked on its send at the same time.
ErrorPathWitness ==
    /\ N >= 2
    /\ Sending = Units

\* C11: register all, then run all. While BindModuleFlags runs no module is
\* started; when it has returned BindFlags has been called exactly once on
\* every module; no Start begins before every module is registered; and a
\* flagModule whose Start has begun holds the value given for its own flag.
RegisterThenRun ==
    /\ \A i \in Units : bindCalls[i] <= 1
    /\ cmdPc = "Bind" =>
          /\ outerPc = "NotStarted" /\ mainPc = "NotCalled"
          /\ \A i \in Units : pc[i] = 0 /\ startCalls[i] = 0
    /\ cmdPc # "Bind" => \A i \in Units : bindCalls[i] = 1
    /\ \A i \in Units :
          startCalls[i] > 0 =>
              /\ \A j \in Units : bindCalls[j] = 1
              /\ modules[i] = flagModule => flagValue[i] = args[FlagNames[i]]

\* C11 witness: two flagModules given different values have both returned
\* from Start.
RegisterThenRunWitness ==
    /\ N = 2
    /\ \A i \in Units : modules[i] = flagModule
    /\ args[FlagNames[1]] # args[FlagNames[2]]
    /\ startReturned = Units

\* C12: Start is invoked exactly once on every module. Never twice; and once
\* the launch loop has ended (so also when RunModules has returned) exactly
\* once on each, also when the context was already cancelled by the parent or
\* by a sibling that had finished.
StartExactlyOnce ==
    /\ \A i \in Units : startCalls[i] <= 1 /\ (startCalls[i] = 1 <=> pc[i] # 0)
    /\ (outerPc \in {"Wait", "Close", "Exit"} \/ Returned) =>
          \A i \in Units : startCalls[i] = 1

\* C12 witness: the launch loop has ended with the context cancelled by the
\* parent, a failing module has finished, and a waitStopModule launched by
\* the loop is still in Start.
StartExactlyOnceWitness ==
    /\ N = 3
    /\ outerPc = "Wait"
    /\ parentDone
    /\ \E i, j \in Units :
          /\ modules[i].err # Nil /\ pc[i] = Exited
          /\ modules[j].kind = "waitStopModule" /\ At(j, "Start")
    /\ \A i \in Units : startCalls[i] = 1

\* C13 as stated: cancel() runs only after some Start has returned, and while
\* no Start has returned and the parent context is not cancelled the derived
\* context is not cancelled and RunModules has not returned.
NoSelfCancelAnyList ==
    /\ cancelCalls > 0 => startReturned # {}
    /\ (startReturned = {} /\ ~parentDone) => (~ctxDone /\ ~Returned)

\* C13 as amended: the same for a list of at least one module (with no
\* module RunModules returns at once); in particular modules that all wait
\* for the cancellation or never return keep RunModules from returning as
\* long as the parent context is not cancelled.
NoSelfCancel ==
    /\ cancelCalls > 0 => startReturned # {}
    /\ (startReturned = {} /\ ~parentDone) => ~ctxDone
    /\ (N >= 1 /\ startReturned = {} /\ ~parentDone) => ~Returned
    /\ ( /\ N >= 1
         /\ \A i \in Units : modules[i].kind \in {"waitStopModule", "neverModule"}
         /\ ~parentDone )
       => (startReturned = {} /\ ~ctxDone /\ ~Returned)

\* C13 witness: three modules that wait are all in Start, the outer goroutine
\* is in wg.Wait() and the caller in its range loop, the parent context not
\* cancelled: nothing can happen but the parent's cancellation.
NoSelfCancelWitness ==
    /\ N = 3
    /\ \A i \in Units : modules[i].kind = "waitStopModule" /\ At(i, "Start")
    /\ outerPc = "Wait"
    /\ mainPc = "Range"
    /\ ~parentDone
    /\ ~ctxDone
    /\ ~ENABLED Progress

\* C14: the derived context is cancelled whenever the caller's context is,
\* and a step that runs the invocation's cancel() (or cancels the derived
\* context in any other way) leaves the caller's context as it was unless it
\* is the caller's own cancellation.
DerivedContext ==
    /\ [](parentDone => ctxDone)
    /\ [][cancelCalls' # cancelCalls => parentDone' = parentDone]_vars
    /\ [][(ctxDone' /\ ~ctxDone /\ ~parentDone') => cancelCalls' = cancelCalls + 1]_vars

\* C14 witness: the invocation has cancelled the derived context and
\* returned; the caller's context is not cancelled.
DerivedContextWitness ==
    /\ Returned
    /\ cancelCalls = 1
    /\ ctxDone
    /\ ~parentDone

\* C15 as stated: of two modules that both return an error, the one whose
\* Start returned first comes earlier in the result RunModules returns.
ReturnOrderAggregation ==
    Returned =>
        \A i, j \in Failing :
            (i # j /\ i \in atReturn[j].returned) => Pos(i) < Pos(j)

\* C15 as amended: of two modules that both return an error, the one whose
\* error the caller had already received when the Start of the other
\* returned comes earlier in the result (two modules whose Starts both return
\* before either error is received may come in either order).
ReceivedBeforeReturnOrder ==
    \A i, j \in Failing :
        (i # j /\ i \in atReturn[j].received /\ (InResult(j) \/ Returned))
        => (InResult(i) /\ InResult(j) /\ Pos(i) < Pos(j))

\* C15 witness: RunModules returned the errors of two modules, the first of
\* which had been received when the Start of the second returned.
ReceivedBeforeReturnWitness ==
    /\ Returned
    /\ N = 2
    /\ Failing = Units
    /\ \E i, j \in Units : i # j /\ i \in atReturn[j].received
    /\ Len(result) = 2

\* C16: the result lists the errors in the order in which the range loop
\* received them: an error is received only when the previous one has been
\* appended, and the result changes only by appending the error just
\* received after all earlier ones, none of which moves or disappears.
ArrivalOrderAggregation ==
    [][ /\ (err' # err /\ err' # Nil) => (err = Nil /\ result' = result)
        /\ (result' # result) =>
              /\ err # Nil
              /\ err' = Nil
              /\ result' = Append(result, err) ]_vars

\* C16 witness: RunModules returned the errors of two modules in the order
\* of their arrival, which is the reverse of the order of launch.
ArrivalOrderWitness ==
    /\ Returned
    /\ Failing = Units
    /\ N >= 2
    /\ Len(result) = N
    /\ \E i, j \in Units : i < j /\ Pos(j) < Pos(i)

\* The errors the modules of the list return, as a bag: the same for every
\* order of the list.
ErrorsOfModules ==
    LET vals == {StartResult(modules[i]) : i \in Failing}
    IN  [e \in vals |-> Cardinality({i \in Failing : StartResult(modules[i]) = e})]

\* C17: the order of the list does not affect the outcome. With the list
\* given in every order, whether RunModules returns, the bag of the errors
\* it reports and which modules are cancelled depend only on which modules
\* the list holds, never on their positions; and every module is launched,
\* whatever the modules before it do.
LaunchOrderIrrelevant ==
    /\ ( /\ \A i \in Units : modules[i].kind # "neverModule"
         /\ \/ N = 0
            \/ \E i \in Units : modules[i].kind = "noopModule"
            \/ parentDone )
       ~> Returned
    /\ []( /\ Returned =>
                /\ \A i \in Units : modules[i].kind # "neverModule"
                /\ \/ N = 0
                   \/ \E i \in Units : modules[i].kind = "noopModule"
                   \/ parentDone
                /\ BagOfSeq(result) = ErrorsOfModules
                /\ \A i \in Units :
                      modules[i].kind = "waitStopModule" => i \in startReturned
           /\ \A i \in Units :
                 (modules[i].kind = "waitStopModule" /\ i \in startReturned)
                 => ctxDone )
    /\ (Returned /\ N >= 1) ~> ctxDone
    /\ <>(\A i \in Units : pc[i] # 0)

\* C17 witness: RunModules returned for a list in another order than that of
\* its positions, in which a module that waits for the cancellation comes
\* before one that returns at once.
LaunchOrderWitness ==
    /\ Returned
    /\ N = 2
    /\ modules[1] \in ModulesAt(2) \ ModulesAt(1)
    /\ modules[2] \in ModulesAt(1) \ ModulesAt(2)
    /\ modules[1].kind = "waitStopModule"
    /\ modules[2].kind = "noopModule"
    /\ ~parentDone
    /\ startReturned = Units

\* The error of module i has been received by the range loop: it is the
\* value just received, or already in the result.
ReceivedByReader(i) == err = StartResult(modules[i]) \/ InResult(i)

\* C18: delivery before trigger. A goroutine whose Start returned an error is
\* at, or past, stopCloseOnce.Do(cancel) only when the range loop has
\* received that error; hence, when the call of cancel was made by a module
\* that failed and the parent context is not cancelled, the error of that
\* module has been received, and it stands in the result ahead of the error
\* of every module that waited for the cancellation.
DeliveryBeforeTrigger ==
    /\ \A i \in Failing :
          (At(i, "Once") \/ Executed(i, "Once")) => ReceivedByReader(i)
    /\ (firedBy \in Failing /\ ~parentDone) =>
          /\ ReceivedByReader(firedBy)
          /\ \A j \in Failing :
                (modules[j].kind = "waitStopModule" /\ ReceivedByReader(j))
                => /\ InResult(firedBy)
                   /\ InResult(j) => Pos(firedBy) < Pos(j)

\* C18 witness: the MultipleErrors test has returned; the module that failed
\* at once made the call of cancel, and the module that waited for it failed
\* in turn.
DeliveryBeforeTriggerWitness ==
    /\ modules = MultipleErrors
    /\ Returned
    /\ ~parentDone
    /\ firedBy = 1
    /\ result = <<"test-error-1", "test-error-2">>

\* The goroutines that have not called wg.Done().
NotDone == {i \in Units : ~Executed(i, "Done")}

\* C19: no orphaned goroutine. No goroutine is launched before wg.Add has
\* registered all of them; from then on the counter of the WaitGroup is the
\* number of goroutines that have not called wg.Done(), and it never goes
\* below zero (which would panic); wg.Wait() returns, and the channel is
\* closed, only when the counter is zero, and the channel is closed once.
NoOrphanedWork ==
    /\ []( /\ ~panicked
           /\ wg >= 0
           /\ (\E i \in Units : pc[i] # 0) => outerPc # "Add"
           /\ outerPc # "Add" => wg = Cardinality(NotDone)
           /\ (Joined \/ errChClosed) => (wg = 0 /\ NotDone = {})
           /\ errChClosed <=> outerPc = "Exit" )
    /\ [][ /\ (outerPc' # outerPc /\ outerPc' = "Close") => wg = 0
           /\ (errChClosed' # errChClosed) =>
                 (~errChClosed /\ errChClosed' /\ wg = 0 /\ outerPc = "Close")
           /\ (wg' # wg) => (wg' = wg - 1 \/ (outerPc = "Add" /\ wg' = N)) ]_vars

\* C19 witness: three goroutines were registered and launched, each has
\* called wg.Done(), the join has completed and the channel is closed.
NoOrphanedWorkWitness ==
    /\ N = 3
    /\ NotDone = {}
    /\ wg = 0
    /\ errChClosed
    /\ outerPc = "Exit"

====
